---- MODULE Spec2Model ----
(***************************************************************************)
(* Model of the VectorWave tracing engine: the per-flow ContextVar         *)
(* current_tracer_var, the trace_root and trace_span wrappers              *)
(* (monitoring/tracer.py), the vectorize decorator with its inner/outer    *)
(* wrappers (core/decorator.py), the resolved settings                     *)
(* (models/db_config.py) and the batch manager's add_object                *)
(* (batch/batch.py).                                                       *)
(*                                                                         *)
(* One activation record ("act") stands for one call of an instrumented    *)
(* function and carries the locals of every wrapper on that call's path.   *)
(* Each logical flow owns a stack of activations and its own view of the   *)
(* ContextVar.                                                             *)
(***************************************************************************)
EXTENDS Integers, Sequences, FiniteSets, TLC

VARIABLES
    settings,       \* the lru_cached WeaviateSettings object
    settingsRaises, \* WeaviateSettings() fails validation: get_weaviate_settings()
                    \* raises on every call (lru_cache keeps no exception)
    batchInit,      \* WeaviateBatchManager._initialized (and client set)
    defs,           \* per vectorize-wrapped function: func_uuid, valid_execution_tags
    cell,           \* current_tracer_var, one value per logical flow
    stack,          \* per flow: the activations in progress, outermost first
    calls           \* number of instrumented calls started so far

vars == <<settings, settingsRaises, batchInit, defs, cell, stack, calls>>

----------------------------------------------------------------------------
(* Bounds *)

MaxDepth == 2       \* nesting depth of instrumented calls in one flow
MaxCalls == 2       \* instrumented calls started in one behaviour
ConcDepth == 1      \* nesting depth per flow when two flows run concurrently

Flows == {1, 2}

----------------------------------------------------------------------------
(* Python dictionaries as functions from keys to values *)

EmptyMap == [k \in {} |-> "None"]

\* dict.update(b): keys of b override
Update(a, b) ==
    [k \in (DOMAIN a) \cup (DOMAIN b) |-> IF k \in DOMAIN b THEN b[k] ELSE a[k]]

\* dict without the keys ks (pop(key, None) for each key)
Without(a, ks) == [k \in (DOMAIN a) \ ks |-> a[k]]

----------------------------------------------------------------------------
(* Values *)

None == "None"

\* isinstance(value, (str, int, float, bool, list, dict, type(None)))
IsPrimitive(v) == v # "OBJ"

\* str(value)
Str(v) == "str(" \o v \o ")"

\* tracer.py: the normalisation of a captured value
Normalize(v) == IF IsPrimitive(v) THEN v ELSE Str(v)

\* str(uuid4()): a fresh identifier; n is unique per call
TraceUuid(n) == "trace-" \o ToString(n)
SpanUuid(n) == "span-" \o ToString(n)

\* generate_uuid5(f"{module_name}.{function_name}")
generate_uuid5(fn) == "uuid5:" \o fn

\* traceback.format_exc(): the traceback text, which ends with the message
format_exc(msg) == "Traceback: " \o msg

----------------------------------------------------------------------------
(* Settings (models/db_config.py) *)

\* contents of .weaviate_properties that the runs start from (its keys)
FileChoices == { {}, {"team"}, {"team", "region", "trace_id"} }

\* environment: either no variable of interest is set, or all are
EnvChoices == { EmptyMap,
                [team |-> "g", region |-> "g", run_id |-> "g", trace_id |-> "g"] }

get_weaviate_settings(fileKeys, env) ==
    [ custom_properties |-> fileKeys,
      global_custom_values |->
          IF fileKeys # {}
          THEN [k \in {p \in fileKeys : p \in DOMAIN env /\ env[p] # ""} |-> env[k]]
          ELSE EmptyMap ]

----------------------------------------------------------------------------
(* The instrumented functions of the application *)

VecFns == {"f", "g"}        \* wrapped with @vectorize
SpanFns == {"s"}            \* wrapped with @trace_span only
Fns == VecFns \cup SpanFns

\* **execution_tags given to vectorize(...)
ExecutionTags(fn) ==
    IF fn = "f" THEN [team |-> "d", region |-> "d"] ELSE EmptyMap

\* attributes_to_capture of the trace_span applied to the function
AttributesToCapture(fn) ==
    IF fn \in VecFns THEN {"function_uuid", "team", "priority", "run_id"}
    ELSE {"run_id"}

\* a decorator that takes every declared tag as valid
ValidExecutionTagsUnchecked(tags, st) == tags

\* decorator(): tag validation at definition time
ValidExecutionTags(tags, st) ==
    IF DOMAIN tags = {} THEN EmptyMap
    ELSE IF st.custom_properties = {} THEN EmptyMap
    ELSE [k \in {t \in DOMAIN tags : t \in st.custom_properties} |-> tags[k]]

\* decorator(): the logger.warning calls of the tag validation
SetupWarnings(tags, st) ==
    IF DOMAIN tags = {} THEN {}
    ELSE IF st.custom_properties = {}
    THEN { [kind |-> "no_properties_file", key |-> "*"] }
    ELSE { [kind |-> "undefined_tag", key |-> k] :
               k \in {t \in DOMAIN tags : t \notin st.custom_properties} }

\* decorator(): what a definition leaves behind for its wrappers, and the
\* warnings it logged
Decorate(fn, st) ==
    [ func_uuid |-> generate_uuid5(fn),
      valid_execution_tags |-> ValidExecutionTags(ExecutionTags(fn), st),
      warnings |-> SetupWarnings(ExecutionTags(fn), st),
      setup_error |-> None ]

\* decorator(): the steps of the try block, in order, at which an Exception
\* can end the setup ("settings": get_weaviate_settings() raises)
SetupSteps == {"uuid", "source", "settings", "tags", "submit"}

\* restriction of a dict to the keys ks
Restrict(a, ks) == [k \in (DOMAIN a) \cap ks |-> a[k]]

\* decorator() when the try block ends at `step`: `except Exception` logs the
\* error and the wrappers are built from what was assigned so far. func_uuid
\* is still None when the identifier failed; valid_execution_tags is filled
\* only by the tag loop, of which `processed` are the keys handled before a
\* failure inside it.
DecorateFailing(fn, st, step, processed) ==
    [ func_uuid |-> IF step = "uuid" THEN None ELSE generate_uuid5(fn),
      valid_execution_tags |->
          IF step \in {"uuid", "source", "settings"} THEN EmptyMap
          ELSE IF step = "tags"
          THEN ValidExecutionTags(Restrict(ExecutionTags(fn), processed), st)
          ELSE ValidExecutionTags(ExecutionTags(fn), st),
      warnings |->
          IF step \in {"uuid", "source", "settings"} THEN {}
          ELSE IF step = "tags"
          THEN SetupWarnings(Restrict(ExecutionTags(fn), processed), st)
          ELSE SetupWarnings(ExecutionTags(fn), st),
      setup_error |-> step ]

\* keyword arguments callers pass
KwChoices == { EmptyMap,
               [team |-> "c", x |-> "c"],
               [trace_id |-> "c"],
               [x |-> "c", priority |-> "OBJ"],
               [function_uuid |-> "c", run_id |-> "c"] }

\* what a business function can do: return, raise an Exception, or be
\* aborted by a BaseException that is not an Exception
Outcomes == { [type |-> "ret", val |-> "v"],
              [type |-> "exc", val |-> "boom"],
              [type |-> "abort", val |-> "KeyboardInterrupt"] }

NoOutcome == [type |-> "none", val |-> None]

----------------------------------------------------------------------------
(* Trace Context and ContextVar *)

\* TraceCollector(trace_id); obj is the identity of the object
TraceCollector(tid, n, fl) == [trace_id |-> tid, obj |-> n, owner |-> fl]

NoTracer == [trace_id |-> None, obj |-> 0, owner |-> 0]

NoToken == [isSet |-> FALSE, old |-> NoTracer]

\* a root wrapper that builds the TraceCollector but never stores it
SetCellForgets(c, fl, tracer) == c

\* current_tracer_var.set(tracer): the token remembers the previous value
SetCell(c, fl, tracer) == [c EXCEPT ![fl] = tracer]
TokenFor(c, fl) == [isSet |-> TRUE, old |-> c[fl]]

\* a reset that leaves the cell as it is
ResetCellKeeps(c, fl, token) == c

\* current_tracer_var.reset(token)
ResetCell(c, fl, token) == [c EXCEPT ![fl] = token.old]

----------------------------------------------------------------------------
(* Pure parts of the wrappers *)

\* outer_wrapper: kwargs.copy(), update(valid_execution_tags), function_uuid
FullKwargs(kwargs, valid, uuid) ==
    Update(Update(kwargs, valid), [function_uuid |-> uuid])

\* a key list that forgets the declared tags that were not valid
KeysToRemoveValidOnly(valid, declared) == (DOMAIN valid) \cup {"function_uuid"}

\* inner_wrapper: the keys popped before the business function is called
KeysToRemove(valid, declared) ==
    (DOMAIN valid) \cup {"function_uuid"} \cup (DOMAIN declared)

\* trace_root.wrapper: kwargs.pop('trace_id', str(uuid4()))
PopTraceId(kw, fresh) == IF "trace_id" \in DOMAIN kw THEN kw["trace_id"] ELSE fresh

\* a span wrapper without the guard on the current tracer
SpanActiveAlways(tracer) == TRUE

\* trace_span.wrapper: `if not tracer: return func(*args, **kwargs)`
SpanActive(tracer) == tracer # NoTracer

\* trace_span.wrapper: the attribute capture loop
CapturedAttributes(attrs, kw) ==
    [k \in {a \in attrs : a \in DOMAIN kw} |-> Normalize(kw[k])]

\* trace_span.wrapper: `except Exception` sets the status, BaseException passes by
SpanStatus(out) == IF out.type = "exc" THEN "ERROR" ELSE "SUCCESS"
SpanErrorMsg(out) == IF out.type = "exc" THEN format_exc(out.val) ELSE None

\* a span wrapper whose except clause does not re-raise: result stays None
SpanOutcomeSwallows(out) ==
    IF out.type = "exc" THEN [type |-> "ret", val |-> None] ELSE out

\* trace_span.wrapper: `raise e` re-raises the caught exception, an abort
\* propagates by itself, `return result` returns what func returned
SpanOutcome(out) ==
    IF out.type = "ret" THEN [type |-> "ret", val |-> out.val] ELSE out

\* trace_span.wrapper: span_properties as built in the finally block
SpanProperties(tracer, st, fn, n, status, error_msg, captured) ==
    Update(
        Update(
            [ trace_id |-> tracer.trace_id,
              span_id |-> SpanUuid(n),
              function_name |-> fn,
              timestamp_utc |-> "now",
              duration_ms |-> "elapsed",
              status |-> status,
              error_message |-> error_msg ],
            st.global_custom_values),
        captured)

\* WeaviateBatchManager.add_object: skipped when uninitialised, otherwise an
\* insert that succeeds or whose failure is logged; it never raises
AddObjectResults(initialised) ==
    IF ~initialised THEN {"skipped"} ELSE {"inserted", "insert_failed"}

\* trace_span.wrapper, the try block around add_object as the wrapper sees it:
\* add_object returns one of its results, or an Exception comes out of the call
SubmitResults(initialised) == AddObjectResults(initialised) \cup {"raised"}

\* a span wrapper with no except clause around add_object: the sink's
\* exception replaces whatever was on its way to the caller
SpanAfterSubmitPropagates(out, r) ==
    IF r = "raised" THEN [type |-> "exc", val |-> "sink"] ELSE out

\* trace_span.wrapper: add_object returned, or `except Exception` logged what
\* it raised; either way the outcome on its way to the caller is untouched
SpanAfterSubmit(out, r) == out

----------------------------------------------------------------------------
(* Activations *)

NewAct(n, fn, pc, kwargs, kw, before) ==
    [ cid |-> n,                 \* call number: the source of this call's fresh ids
      fn |-> fn,
      pc |-> pc,
      kwargs |-> kwargs,         \* keyword arguments as the caller supplied them
      kw |-> kw,                 \* keyword arguments as they flow down the wrappers
      cellBefore |-> before,     \* the flow's cell when the call was made
      token |-> NoToken,         \* trace_root's token
      created |-> 0,             \* Trace Contexts this call's trace_root created
      tracer |-> NoTracer,       \* trace_span's local `tracer`
      captured |-> EmptyMap,     \* trace_span's captured_attributes
      received |-> EmptyMap,     \* keyword arguments the business function got
      invoked |-> 0,             \* times the business function was entered
      bodyOut |-> NoOutcome,     \* what the business function produced
      out |-> NoOutcome,         \* what is propagating up to the caller
      span_properties |-> EmptyMap,
      submits |-> 0,             \* add_object calls made for this call
      sinkResult |-> "none" ]

Top(fl) == stack[fl][Len(stack[fl])]

SetTop(fl, act) == [stack EXCEPT ![fl] = [@ EXCEPT ![Len(@)] = act]]

\* a caller exists: the flow's top level, or a business function in progress
CanCall(fl, depth) ==
    /\ calls < MaxCalls
    /\ Len(stack[fl]) < depth
    /\ (stack[fl] # <<>> => Top(fl).pc = "body")

----------------------------------------------------------------------------
(* Actions *)

\* A caller calls a vectorize-wrapped function: outer_wrapper runs and calls
\* the trace_root wrapper of inner_wrapper with full_kwargs.
outer_wrapper(fl, fns, kws, depth) ==
    /\ CanCall(fl, depth)
    /\ \E fn \in fns \cap VecFns, kwargs \in kws :
         LET full == FullKwargs(kwargs, defs[fn].valid_execution_tags,
                                defs[fn].func_uuid)
         IN stack' = [stack EXCEPT ![fl] =
                Append(@, NewAct(calls + 1, fn, "root", kwargs, full, cell[fl]))]
    /\ calls' = calls + 1
    /\ UNCHANGED <<settings, settingsRaises, batchInit, defs, cell>>

\* A caller calls a function wrapped with @trace_span alone.
call_span_function(fl, fns, kws, depth) ==
    /\ CanCall(fl, depth)
    /\ \E fn \in fns \cap SpanFns, kwargs \in kws :
         stack' = [stack EXCEPT ![fl] =
                Append(@, NewAct(calls + 1, fn, "span", kwargs, kwargs, cell[fl]))]
    /\ calls' = calls + 1
    /\ UNCHANGED <<settings, settingsRaises, batchInit, defs, cell>>

\* trace_root.wrapper up to the call of func: pass through when a tracer is
\* current, otherwise pop trace_id, create the TraceCollector and set the cell.
trace_root_enter(fl) ==
    /\ stack[fl] # <<>>
    /\ Top(fl).pc = "root"
    /\ LET a == Top(fl) IN
         IF cell[fl] # NoTracer
         THEN /\ stack' = SetTop(fl, [a EXCEPT !.pc = "span"])
              /\ cell' = cell
         ELSE IF settingsRaises
         THEN \* TraceCollector.__init__: get_weaviate_settings() raises, and the
              \* exception leaves the wrapper before the cell is set
              /\ stack' = SetTop(fl, [a EXCEPT !.pc = "done",
                                                !.kw = Without(a.kw, {"trace_id"}),
                                                !.out = [type |-> "exc",
                                                         val |-> "ValidationError"]])
              /\ cell' = cell
         ELSE LET tid == PopTraceId(a.kw, TraceUuid(a.cid))
                  tracer == TraceCollector(tid, a.cid, fl)
              IN /\ stack' = SetTop(fl, [a EXCEPT !.pc = "span",
                                                   !.kw = Without(a.kw, {"trace_id"}),
                                                   !.token = TokenFor(cell, fl),
                                                   !.created = a.created + 1])
                 /\ cell' = SetCell(cell, fl, tracer)
    /\ UNCHANGED <<settings, settingsRaises, batchInit, defs, calls>>

\* trace_span.wrapper up to the call of func: read the cell, capture attributes.
trace_span_enter(fl) ==
    /\ stack[fl] # <<>>
    /\ Top(fl).pc = "span"
    /\ LET a == Top(fl)
           tracer == cell[fl]
           next == IF a.fn \in VecFns THEN "inner" ELSE "body"
           b == IF SpanActive(tracer)
                THEN [a EXCEPT !.tracer = tracer,
                               !.captured = CapturedAttributes(AttributesToCapture(a.fn), a.kw)]
                ELSE a
       IN stack' = SetTop(fl,
              IF next = "body"
              THEN [b EXCEPT !.pc = "body", !.received = b.kw, !.invoked = b.invoked + 1]
              ELSE [b EXCEPT !.pc = "inner"])
    /\ UNCHANGED <<settings, settingsRaises, batchInit, defs, cell, calls>>

\* inner_wrapper: strip the instrumentation keys and call the business function.
inner_wrapper(fl) ==
    /\ stack[fl] # <<>>
    /\ Top(fl).pc = "inner"
    /\ LET a == Top(fl)
           remove == KeysToRemove(defs[a.fn].valid_execution_tags, ExecutionTags(a.fn))
       IN stack' = SetTop(fl, [a EXCEPT !.pc = "body",
                                        !.received = Without(a.kw, remove),
                                        !.invoked = a.invoked + 1])
    /\ UNCHANGED <<settings, settingsRaises, batchInit, defs, cell, calls>>

\* The business function finishes: it returns, raises, or is aborted.
body_finish(fl) ==
    /\ stack[fl] # <<>>
    /\ Top(fl).pc = "body"
    /\ \E o \in Outcomes :
         stack' = SetTop(fl, [Top(fl) EXCEPT !.pc = "span_exit", !.bodyOut = o, !.out = o])
    /\ UNCHANGED <<settings, settingsRaises, batchInit, defs, cell, calls>>

\* trace_span.wrapper from the return of func on: except, finally (build the
\* record, add_object), return or re-raise. Inert when no tracer was current.
trace_span_exit(fl) ==
    /\ stack[fl] # <<>>
    /\ Top(fl).pc = "span_exit"
    /\ LET a == Top(fl)
           next == IF a.fn \in VecFns THEN "root_exit" ELSE "done"
       IN IF ~SpanActive(a.tracer)
          THEN stack' = SetTop(fl, [a EXCEPT !.pc = next])
          ELSE \E r \in SubmitResults(batchInit) :
                 stack' = SetTop(fl,
                    [a EXCEPT !.pc = next,
                              !.span_properties =
                                  SpanProperties(a.tracer, settings, a.fn, a.cid,
                                                 SpanStatus(a.out), SpanErrorMsg(a.out),
                                                 a.captured),
                              !.submits = a.submits + 1,
                              !.sinkResult = r,
                              !.out = SpanAfterSubmit(SpanOutcome(a.out), r)])
    /\ UNCHANGED <<settings, settingsRaises, batchInit, defs, cell, calls>>

\* trace_root.wrapper after func: the finally block resets the cell when this
\* call set it; the outcome passes through.
trace_root_exit(fl) ==
    /\ stack[fl] # <<>>
    /\ Top(fl).pc = "root_exit"
    /\ LET a == Top(fl) IN
         /\ cell' = IF a.token.isSet THEN ResetCell(cell, fl, a.token) ELSE cell
         /\ stack' = SetTop(fl, [a EXCEPT !.pc = "done"])
    /\ UNCHANGED <<settings, settingsRaises, batchInit, defs, calls>>

\* The outermost wrapper returns to its caller.
return_to_caller(fl) ==
    /\ stack[fl] # <<>>
    /\ Top(fl).pc = "done"
    /\ stack' = [stack EXCEPT ![fl] = SubSeq(@, 1, Len(@) - 1)]
    /\ UNCHANGED <<settings, settingsRaises, batchInit, defs, cell, calls>>

----------------------------------------------------------------------------
(* Specifications *)

InitWith(files, envs) ==
    /\ \E fileKeys \in files, env \in envs :
         settings = get_weaviate_settings(fileKeys, env)
    /\ settingsRaises = FALSE
    /\ batchInit \in BOOLEAN
    /\ defs = [fn \in VecFns |-> Decorate(fn, settings)]
    /\ cell = [fl \in Flows |-> NoTracer]
    /\ stack = [fl \in Flows |-> <<>>]
    /\ calls = 0

Init == InitWith(FileChoices, EnvChoices)

\* one logical flow, every function and every keyword choice
Next ==
    \/ outer_wrapper(1, Fns, KwChoices, MaxDepth)
    \/ call_span_function(1, Fns, KwChoices, MaxDepth)
    \/ trace_root_enter(1)
    \/ trace_span_enter(1)
    \/ inner_wrapper(1)
    \/ body_finish(1)
    \/ trace_span_exit(1)
    \/ trace_root_exit(1)
    \/ return_to_caller(1)

Spec == Init /\ [][Next]_vars

\* two logical flows interleaved, calling without a trace_id override
ConcKw == { EmptyMap, [team |-> "c", x |-> "c"] }

InitConc == InitWith({ {}, {"team", "region", "trace_id"} }, EnvChoices)

NextConc ==
    \E fl \in Flows :
        \/ outer_wrapper(fl, Fns, ConcKw, ConcDepth)
        \/ call_span_function(fl, Fns, ConcKw, ConcDepth)
        \/ trace_root_enter(fl)
        \/ trace_span_enter(fl)
        \/ inner_wrapper(fl)
        \/ body_finish(fl)
        \/ trace_span_exit(fl)
        \/ trace_root_exit(fl)
        \/ return_to_caller(fl)

SpecConc == InitConc /\ [][NextConc]_vars

\* one logical flow, where the definition-time setup of the vectorize-wrapped
\* functions went through or ended at one of its steps. When the settings
\* cannot be built, WeaviateBatchManager.__init__ catches the failure and
\* stays uninitialised, and no settings object exists.
InitSetup ==
    \E fileKeys \in FileChoices, env \in EnvChoices,
       step \in SetupSteps \cup {"none"}, processed \in SUBSET {"team", "region"} :
        /\ settingsRaises = (step = "settings")
        /\ settings = IF step = "settings"
                      THEN get_weaviate_settings({}, EmptyMap)
                      ELSE get_weaviate_settings(fileKeys, env)
        /\ batchInit \in (IF step = "settings" THEN {FALSE} ELSE BOOLEAN)
        /\ defs = [fn \in VecFns |->
                      IF step = "none" THEN Decorate(fn, settings)
                      ELSE DecorateFailing(fn, settings, step, processed)]
        /\ cell = [fl \in Flows |-> NoTracer]
        /\ stack = [fl \in Flows |-> <<>>]
        /\ calls = 0

SpecSetup == InitSetup /\ [][Next]_vars

----------------------------------------------------------------------------
(* Vocabulary of the properties *)

\* the activations of a flow, by position in its stack
Positions(fl) == 1..Len(stack[fl])

\* the span wrapper of the call has finished
SpanDone(a) == a.pc \in {"root_exit", "done"}

\* the business function of the call has been entered
Entered(a) == a.pc \in {"body", "span_exit", "root_exit", "done"}

\* the call has submitted its span record
Submitted(a) == a.submits > 0

\* a root-wrapped call with no root-wrapped call below it in its flow
IsOutermostRoot(fl, i) ==
    /\ stack[fl][i].fn \in VecFns
    /\ \A j \in 1..(i - 1) : stack[fl][j].fn \notin VecFns

\* the outermost root-wrapped call below or at position i, 0 when there is none
OutermostRootAt(fl, i) ==
    IF \E j \in 1..i : IsOutermostRoot(fl, j)
    THEN CHOOSE j \in 1..i : IsOutermostRoot(fl, j)
    ELSE 0

\* a Trace Context was current when the call's span wrapper started
TraceCurrentAtSpan(a) == a.cellBefore # NoTracer \/ a.created > 0

\* keys the application uses as tags
TagKeys == {"team", "priority", "run_id", "region"}

----------------------------------------------------------------------------
(* C1: in every flow and every chain of nested root-wrapped calls, exactly  *)
(* one Trace Context is created, by the outermost call; while that call    *)
(* runs the cell holds the context it created (a fresh object, never one    *)
(* left by an earlier call); and when the call has exited, by return,      *)
(* exception or abort, the cell holds the value it held before the call.   *)
C1_OneContextAndCellRestored ==
    \A fl \in Flows : \A i \in Positions(fl) :
        LET a == stack[fl][i]
            r == OutermostRootAt(fl, i)
        IN a.fn \in VecFns =>
             /\ a.pc # "root" =>
                  a.created = (IF IsOutermostRoot(fl, i) THEN 1 ELSE 0)
             /\ a.pc \in {"span", "inner", "body", "span_exit", "root_exit"} =>
                  /\ cell[fl].obj = stack[fl][r].cid
                  /\ cell[fl].owner = fl
             /\ a.pc = "done" => cell[fl] = a.cellBefore

\* an outermost root call, made after an earlier call in the flow, has been
\* aborted and has exited with the cell restored
C1_Witness ==
    \E fl \in Flows :
        /\ Len(stack[fl]) = 1
        /\ stack[fl][1].fn \in VecFns
        /\ stack[fl][1].cid = 2
        /\ stack[fl][1].pc = "done"
        /\ stack[fl][1].created = 1
        /\ stack[fl][1].out.type = "abort"
        /\ cell[fl] = NoTracer

----------------------------------------------------------------------------
----------------------------------------------------------------------------
(* C4: a call whose span wrapper finished while a Trace Context was        *)
(* current has made exactly one add_object call; a call made with no       *)
(* Trace Context current has made none, built no record and passed its     *)
(* keywords to the function untouched; no record is submitted before the   *)
(* function has finished.                                                  *)
C4_ExactlyOneSpan ==
    \A fl \in Flows : \A i \in Positions(fl) :
        LET a == stack[fl][i]
            finished == IF a.fn \in VecFns THEN SpanDone(a) ELSE a.pc = "done"
        IN /\ (finished /\ TraceCurrentAtSpan(a)) =>
                 /\ a.submits = 1
                 /\ a.sinkResult \in SubmitResults(batchInit)
           /\ ~finished => a.submits = 0
           /\ (Entered(a) /\ ~TraceCurrentAtSpan(a)) =>
                 /\ a.submits = 0
                 /\ a.span_properties = EmptyMap
                 /\ a.invoked = 1
                 /\ a.received = a.kwargs

\* a span-only function called with no trace current is running inert, and
\* the root-wrapped call it made has finished with one record submitted
C4_Witness ==
    \E fl \in Flows :
        /\ Len(stack[fl]) = 2
        /\ stack[fl][1].fn \in SpanFns
        /\ stack[fl][1].pc = "body"
        /\ stack[fl][1].submits = 0
        /\ stack[fl][2].pc = "done"
        /\ stack[fl][2].submits = 1
        /\ stack[fl][2].bodyOut.type = "exc"

----------------------------------------------------------------------------
(* C2: when two flows call root-wrapped functions without a trace_id       *)
(* override, in any interleaving, their trace identifiers differ, a flow   *)
(* only ever reads a Trace Context it created itself, and every span       *)
(* record a flow submits carries that flow's trace identifier and not the  *)
(* other flow's.                                                           *)
BothFlowsInRootCalls ==
    \A fl \in Flows : stack[fl] # <<>> /\ stack[fl][1].fn \in VecFns

C2_FlowsIsolated ==
    BothFlowsInRootCalls =>
    \A fl \in Flows :
        /\ cell[fl] # NoTracer =>
             /\ cell[fl].owner = fl
             /\ \A other \in Flows \ {fl} :
                  cell[other] # NoTracer => cell[other].trace_id # cell[fl].trace_id
        /\ \A i \in Positions(fl) :
             LET a == stack[fl][i]
             IN /\ a.tracer # NoTracer => a.tracer.owner = fl
                /\ Submitted(a) =>
                     /\ a.span_properties["trace_id"] = a.tracer.trace_id
                     /\ \A other \in Flows \ {fl} :
                          cell[other] # NoTracer =>
                              a.span_properties["trace_id"] # cell[other].trace_id

----------------------------------------------------------------------------
(* C5: a span record has status SUCCESS and no error detail when the       *)
(* wrapped function returned; it has status ERROR and an error detail      *)
(* holding the failure's message when the function exited by raising,      *)
(* whatever it raised, and that exception reaches the caller; error detail *)
(* is present exactly when the status is ERROR.                            *)
C5_StatusMatchesOutcome ==
    \A fl \in Flows : \A i \in Positions(fl) :
        LET a == stack[fl][i]
            p == a.span_properties
        IN Submitted(a) =>
             /\ a.bodyOut.type = "ret" =>
                  p["status"] = "SUCCESS" /\ p["error_message"] = None
             /\ a.bodyOut.type \in {"exc", "abort"} =>
                  /\ p["status"] = "ERROR"
                  /\ p["error_message"] = format_exc(a.bodyOut.val)
                  /\ a.out = a.bodyOut
             /\ (p["error_message"] # None) <=> (p["status"] = "ERROR")

----------------------------------------------------------------------------
(* C6, as claimed: the business function of a vectorize-wrapped call       *)
(* receives no key of valid_execution_tags, no function_uuid and no key of *)
(* the execution_tags declaration, and receives every other keyword the    *)
(* caller supplied, with the caller's value.                               *)
StrippedKeys(fn) ==
    (DOMAIN defs[fn].valid_execution_tags) \cup {"function_uuid"}
        \cup (DOMAIN ExecutionTags(fn))

C6_AllOtherKeywordsPass ==
    \A fl \in Flows : \A i \in Positions(fl) :
        LET a == stack[fl][i]
        IN (a.fn \in VecFns /\ Entered(a)) =>
             /\ (DOMAIN a.received) \cap StrippedKeys(a.fn) = {}
             /\ \A k \in (DOMAIN a.kwargs) \ StrippedKeys(a.fn) :
                  k \in DOMAIN a.received /\ a.received[k] = a.kwargs[k]

(* C6, amended: the same, except that nothing is said of trace_id, which   *)
(* the Root Scope removes on an outermost call.                            *)
C6_OtherKeywordsPassExceptTraceId ==
    \A fl \in Flows : \A i \in Positions(fl) :
        LET a == stack[fl][i]
        IN (a.fn \in VecFns /\ Entered(a)) =>
             /\ (DOMAIN a.received) \cap StrippedKeys(a.fn) = {}
             /\ \A k \in (DOMAIN a.kwargs) \ (StrippedKeys(a.fn) \cup {"trace_id"}) :
                  k \in DOMAIN a.received /\ a.received[k] = a.kwargs[k]

\* f declared team, which the configuration does not allow; the caller
\* passed team and x; the business function is running with x alone
C6_Witness ==
    \E fl \in Flows : \E i \in Positions(fl) :
        /\ stack[fl][i].fn = "f"
        /\ "team" \notin DOMAIN defs["f"].valid_execution_tags
        /\ stack[fl][i].kwargs = [team |-> "c", x |-> "c"]
        /\ stack[fl][i].pc = "body"
        /\ stack[fl][i].received = [x |-> "c"]

----------------------------------------------------------------------------
(* C7: a trace_id keyword supplied by the caller of a vectorize-wrapped    *)
(* function never reaches the business function, on an outermost call and  *)
(* on a nested call alike.                                                 *)
C7_TraceIdNeverReachesFunction ==
    \A fl \in Flows : \A i \in Positions(fl) :
        LET a == stack[fl][i]
        IN (a.fn \in VecFns /\ Entered(a)) => "trace_id" \notin DOMAIN a.received

----------------------------------------------------------------------------
(* C8: a keyword the caller supplies under a tag name (team, priority,     *)
(* run_id) that is not among the configuration's allowed keys is neither   *)
(* in the span record nor among the keywords the business function gets.   *)
C8_UnallowedTagDropped ==
    \A fl \in Flows : \A i \in Positions(fl) :
        LET a == stack[fl][i]
        IN a.fn \in VecFns =>
             \A k \in {"team", "priority", "run_id"} \cap (DOMAIN a.kwargs) :
                 k \notin settings.custom_properties =>
                     /\ Entered(a) => k \notin DOMAIN a.received
                     /\ Submitted(a) => k \notin DOMAIN a.span_properties

----------------------------------------------------------------------------
(* C9: in every span record of a vectorize-wrapped call, each tag key      *)
(* holds the function's valid declared value if there is one, otherwise    *)
(* the caller's value if the key is captured and was supplied, otherwise   *)
(* the configured global value if there is one, and otherwise is absent    *)
(* (values in the form the capture gives them).                            *)
C9_Precedence ==
    \A fl \in Flows : \A i \in Positions(fl) :
        LET a == stack[fl][i]
            p == a.span_properties
            valid == defs[a.fn].valid_execution_tags
            global == settings.global_custom_values
        IN (a.fn \in VecFns /\ Submitted(a)) =>
             \A k \in TagKeys :
                 IF k \in DOMAIN valid
                 THEN k \in DOMAIN p /\ p[k] = Normalize(valid[k])
                 ELSE IF k \in AttributesToCapture(a.fn) /\ k \in DOMAIN a.kwargs
                 THEN k \in DOMAIN p /\ p[k] = Normalize(a.kwargs[k])
                 ELSE IF k \in DOMAIN global
                 THEN k \in DOMAIN p /\ p[k] = global[k]
                 ELSE k \notin DOMAIN p

----------------------------------------------------------------------------
(* C10: in every span record the identity, timing and status fields are    *)
(* the ones the span wrapper set for the call: trace_id is the trace_id of *)
(* the Trace Context current during the call, and no global value or       *)
(* captured attribute replaces any of them.                                *)
C10_IdentityFieldsKept ==
    \A fl \in Flows : \A i \in Positions(fl) :
        LET a == stack[fl][i]
            p == a.span_properties
        IN Submitted(a) =>
             /\ p["trace_id"] = a.tracer.trace_id
             /\ p["span_id"] = SpanUuid(a.cid)
             /\ p["function_name"] = a.fn
             /\ p["timestamp_utc"] = "now"
             /\ p["duration_ms"] = "elapsed"
             /\ p["status"] = SpanStatus(a.bodyOut)
             /\ p["error_message"] = SpanErrorMsg(a.bodyOut)

----------------------------------------------------------------------------
(* C11: when the submission of a span record fails (the batch manager is   *)
(* uninitialised, the insert fails, or add_object raises), the call still  *)
(* hands its caller what the business function produced, its return value  *)
(* or its own exception and not the sink's, and the Root Scope that set    *)
(* the cell has restored it once the call has exited.                      *)
SinkFailed(a) == a.sinkResult \in {"skipped", "insert_failed", "raised"}

C11_SinkFailureSwallowed ==
    \A fl \in Flows : \A i \in Positions(fl) :
        LET a == stack[fl][i]
        IN (Submitted(a) /\ SinkFailed(a)) =>
             /\ a.invoked = 1
             /\ a.out = a.bodyOut
             /\ (a.pc = "done" /\ a.fn \in VecFns) => cell[fl] = a.cellBefore

\* an outermost call whose business function raised has exited: add_object
\* raised, the caller gets the business exception, the cell is empty again
C11_Witness ==
    \E fl \in Flows :
        /\ Len(stack[fl]) = 1
        /\ stack[fl][1].pc = "done"
        /\ stack[fl][1].token.isSet
        /\ stack[fl][1].sinkResult = "raised"
        /\ stack[fl][1].bodyOut = [type |-> "exc", val |-> "boom"]
        /\ stack[fl][1].out = [type |-> "exc", val |-> "boom"]
        /\ cell[fl] = NoTracer

----------------------------------------------------------------------------
(* C12: the Trace Context of an outermost call has the trace_id the caller *)
(* supplied, or a newly generated one when none was supplied; every span   *)
(* record submitted in that call's subtree carries that trace_id; a nested *)
(* instrumented call, also one passing another trace_id, creates no Trace  *)
(* Context and leaves the trace_id of the current one as it is.            *)
RootTraceId(o) ==
    IF "trace_id" \in DOMAIN o.kwargs THEN o.kwargs["trace_id"] ELSE TraceUuid(o.cid)

C12_OneTraceIdPerTree ==
    \A fl \in Flows : \A i \in Positions(fl) :
        LET a == stack[fl][i]
            r == OutermostRootAt(fl, i)
        IN r # 0 =>
             /\ (a.pc \notin {"root", "done"} \/ i > r) =>
                  cell[fl].trace_id = RootTraceId(stack[fl][r])
             /\ (i > r /\ a.fn \in VecFns) => a.created = 0
             /\ Submitted(a) =>
                  a.span_properties["trace_id"] = RootTraceId(stack[fl][r])

----------------------------------------------------------------------------
(* C13: in one flow, the Trace Context of an outermost call is in the cell *)
(* before any span of the call's subtree starts and stays there until      *)
(* every span record of the subtree, the outermost call's own included,    *)
(* has been submitted: every span of the subtree reads that context, the   *)
(* subtree runs while the outermost call is inside its business function,  *)
(* and once the Root Scope has cleaned up the subtree is finished and      *)
(* nothing more is submitted.                                              *)
C13_RootScopeAroundSubtree ==
    \A fl \in Flows : \A i \in Positions(fl) :
        LET a == stack[fl][i]
            r == OutermostRootAt(fl, i)
            o == stack[fl][r]
        IN r # 0 =>
             \* established before any span starts, kept while spans run
             /\ (a.pc \in {"span", "inner", "body", "span_exit"} \/ i > r) =>
                  /\ o.token.isSet
                  /\ cell[fl].obj = o.cid
             /\ a.pc \in {"inner", "body", "span_exit", "root_exit", "done"} =>
                  a.tracer.obj = o.cid
             \* the subtree runs inside the outermost call's business function
             /\ i > r => o.pc = "body" /\ o.submits = 0
             \* cleanup comes after the last submission, and nothing follows it
             /\ (i = r /\ a.pc = "root_exit") => a.submits = 1 /\ cell[fl].obj = a.cid
             /\ (i = r /\ a.pc = "done") =>
                  /\ a.submits = 1
                  /\ i = Len(stack[fl])
                  /\ cell[fl] = NoTracer

\* a nested call has submitted its record and finished while the outermost
\* call, whose context is still in the cell, has yet to submit its own
C13_Witness ==
    \E fl \in Flows :
        /\ Len(stack[fl]) = 2
        /\ IsOutermostRoot(fl, 1)
        /\ stack[fl][1].pc = "body"
        /\ stack[fl][1].submits = 0
        /\ stack[fl][2].pc = "done"
        /\ stack[fl][2].submits = 1
        /\ stack[fl][2].tracer.obj = stack[fl][1].cid
        /\ cell[fl].obj = stack[fl][1].cid

----------------------------------------------------------------------------
(* C14: after the definition of a vectorize-wrapped function,              *)
(* valid_execution_tags is the declared execution_tags restricted to the   *)
(* configuration's allowed keys and one warning was logged per dropped     *)
(* key; when the configuration has no allowed keys, valid_execution_tags   *)
(* is empty and the declared tags were dropped with one warning in all.    *)
(* So a function with a declared tag, under a configuration with no        *)
(* allowed keys and called with no keywords, gets a span record without    *)
(* that key and receives no such keyword.                                  *)
DroppedTags(fn) ==
    {k \in DOMAIN ExecutionTags(fn) : k \notin settings.custom_properties}

C14_TagsValidatedAtDefinition ==
    \A fn \in VecFns :
        /\ defs[fn].valid_execution_tags =
               [k \in (DOMAIN ExecutionTags(fn)) \cap settings.custom_properties
                    |-> ExecutionTags(fn)[k]]
        /\ IF settings.custom_properties = {}
           THEN /\ defs[fn].valid_execution_tags = EmptyMap
                /\ Cardinality(defs[fn].warnings) =
                       (IF DOMAIN ExecutionTags(fn) = {} THEN 0 ELSE 1)
           ELSE /\ {w.key : w \in defs[fn].warnings} = DroppedTags(fn)
                /\ Cardinality(defs[fn].warnings) = Cardinality(DroppedTags(fn))
        /\ \A fl \in Flows : \A i \in Positions(fl) :
             LET a == stack[fl][i]
             IN (a.fn = fn /\ settings.custom_properties = {} /\ a.kwargs = EmptyMap) =>
                  \A k \in DOMAIN ExecutionTags(fn) :
                      /\ Entered(a) => k \notin DOMAIN a.received
                      /\ Submitted(a) => k \notin DOMAIN a.span_properties

\* no allowed keys: f, which declares team and region, was defined with one
\* warning, was called as f() and has submitted a record without either key
C14_Witness ==
    \E fl \in Flows : \E i \in Positions(fl) :
        /\ settings.custom_properties = {}
        /\ Cardinality(defs["f"].warnings) = 1
        /\ stack[fl][i].fn = "f"
        /\ stack[fl][i].kwargs = EmptyMap
        /\ stack[fl][i].received = EmptyMap
        /\ Submitted(stack[fl][i])
        /\ (DOMAIN stack[fl][i].span_properties) \cap {"team", "region"} = {}

----------------------------------------------------------------------------
(* C15: when the definition-time setup of a vectorize-wrapped function     *)
(* ended in a failure at any of its steps, the function is still callable, *)
(* every call that has exited ran the business function exactly once and   *)
(* hands the caller exactly what it produced, and the business function    *)
(* receives none of the declared execution_tags keys nor function_uuid.    *)
C15_SetupFailureHarmless ==
    \A fl \in Flows : \A i \in Positions(fl) :
        LET a == stack[fl][i]
        IN (a.fn \in VecFns /\ defs[a.fn].setup_error # None) =>
             /\ a.pc = "done" =>
                  /\ a.invoked = 1
                  /\ a.bodyOut \in Outcomes
                  /\ a.out = a.bodyOut
             /\ Entered(a) =>
                  (DOMAIN a.received) \cap
                      ((DOMAIN ExecutionTags(a.fn)) \cup {"function_uuid"}) = {}

====
